---- MODULE Spec2Model ----
(***************************************************************************)
(* Model of beatmapview.py: the chart parser, the modifier mapping, the    *)
(* shared GameState written by the two websocket handlers and the loader   *)
(* thread, and the renderer's snapshot read.                               *)
(*                                                                         *)
(* Representation choices:                                                 *)
(*  - speed_rate is held in hundredths (1.5 -> 150, 0.75 -> 75, 1.0 -> 100)*)
(*  - wall-clock time (time.perf_counter) is held in integer milliseconds  *)
(*  - a chart text is a sequence of lines; a line is a record whose tag    *)
(*    says what strip()/startswith() see, and an object line carries the   *)
(*    fields that split(",") yields; a field is a record saying what       *)
(*    int()/float() make of it                                             *)
(*  - a missing state.name is NoName; a missing time has has_live = FALSE  *)
(***************************************************************************)
EXTENDS Integers, Sequences, FiniteSets, TLC

\* ------------------------------------------------------------------------
\* Bounds of the model
\* ------------------------------------------------------------------------
MaxMods == 1023
MaxLines == 4
MaxWall == 1
MaxAttempts == 2
MaxIds == 3

\* ------------------------------------------------------------------------
\* Mod bit flags and the modifier mapping
\* ------------------------------------------------------------------------
MOD_DT == 64
MOD_NC == 512
MOD_HT == 256
LOOKAHEAD_MS == 4000

\* Python's a & b on non-negative integers
RECURSIVE BitAnd(_, _)
BitAnd(a, b) ==
    IF a = 0 \/ b = 0 THEN 0
    ELSE (IF a % 2 = 1 /\ b % 2 = 1 THEN 1 ELSE 0) + 2 * BitAnd(a \div 2, b \div 2)

mods_to_speed_rate(m) ==
    IF BitAnd(m, MOD_DT) # 0 \/ BitAnd(m, MOD_NC) # 0 THEN 150
    ELSE IF BitAnd(m, MOD_HT) # 0 THEN 75
    ELSE 100

\* a label mapping that tests DT before NC
mods_to_label_DTfirst(m) ==
    IF BitAnd(m, MOD_DT) # 0 THEN "DT"
    ELSE IF BitAnd(m, MOD_NC) # 0 THEN "NC"
    ELSE IF BitAnd(m, MOD_HT) # 0 THEN "HT"
    ELSE ""

mods_to_label(m) ==
    IF BitAnd(m, MOD_NC) # 0 THEN "NC"
    ELSE IF BitAnd(m, MOD_DT) # 0 THEN "DT"
    ELSE IF BitAnd(m, MOD_HT) # 0 THEN "HT"
    ELSE ""

\* ------------------------------------------------------------------------
\* Chart text and parse_osu_taiko
\* ------------------------------------------------------------------------
\* fields of an object line, as int() and float() see them
IntF(n) == [k |-> "int", v |-> n]          \* "1000": int() and float() accept it
FloatF(h) == [k |-> "float", v |-> h]      \* a decimal of h hundredths: only float()
InfF == [k |-> "inf", v |-> 0]             \* "inf": float() accepts it, int() does not
BadF == [k |-> "bad", v |-> 0]             \* not numeric

\* lines, as strip(), ==, startswith() and split(",") see them
HitObjectsLine == [tag |-> "section", name |-> "[HitObjects]", parts |-> << >>]
OtherSectionLine == [tag |-> "section", name |-> "[Other]", parts |-> << >>]
BlankLine == [tag |-> "blank", name |-> "", parts |-> << >>]
CommentLine == [tag |-> "comment", name |-> "", parts |-> << >>]
ObjLine(fs) == [tag |-> "obj", name |-> "", parts |-> fs]

TaikoNote(t, ty, e) == [time_ms |-> t, note_type |-> ty, end_time_ms |-> e]

\* int(x) of a float: truncation toward zero of n / d
TruncDiv(n, d) == IF n >= 0 THEN n \div d ELSE -((-n) \div d)

\* outcome of one [HitObjects] line: "skip", "note" (with the note) or
\* "raise" (an exception leaves parse_osu_taiko)
Skip == [r |-> "skip", note |-> TaikoNote(0, "", 0)]
Raise == [r |-> "raise", note |-> TaikoNote(0, "", 0)]
Emit(n) == [r |-> "note", note |-> n]

parse_spinner(parts, hit_time) ==
    IF Len(parts) > 5
    THEN IF parts[6].k = "int"
         THEN Emit(TaikoNote(hit_time, "spinner", parts[6].v))
         ELSE Raise
    ELSE Emit(TaikoNote(hit_time, "spinner", hit_time))

parse_drumroll(parts, hit_time, hitsound) ==
    LET ty == IF BitAnd(hitsound, 4) # 0 THEN "drumroll_big" ELSE "drumroll"
    IN  IF Len(parts) > 7
        THEN IF parts[7].k # "int" THEN Emit(TaikoNote(hit_time, ty, hit_time))
             ELSE IF parts[8].k = "bad" THEN Emit(TaikoNote(hit_time, ty, hit_time))
             ELSE IF parts[8].k = "inf" THEN Raise
             ELSE LET h == IF parts[8].k = "int" THEN 100 * parts[8].v ELSE parts[8].v
                  IN  Emit(TaikoNote(hit_time, ty, hit_time + TruncDiv(h, 10)))
        ELSE Emit(TaikoNote(hit_time, ty, hit_time))

parse_hit(hit_time, hitsound) ==
    LET is_kat == BitAnd(hitsound, 2) # 0 \/ BitAnd(hitsound, 8) # 0
        is_big == BitAnd(hitsound, 4) # 0
        ntype == IF is_kat THEN (IF is_big THEN "kat_big" ELSE "kat")
                 ELSE (IF is_big THEN "don_big" ELSE "don")
    IN  Emit(TaikoNote(hit_time, ntype, 0))

\* lines 95-135: one line inside [HitObjects]
parse_line(parts) ==
    IF Len(parts) < 5 THEN Skip
    ELSE IF parts[1].k # "int" \/ parts[3].k # "int"
            \/ parts[4].k # "int" \/ parts[5].k # "int" THEN Skip
    ELSE LET hit_time == parts[3].v
             obj_type == parts[4].v
             hitsound == parts[5].v
         IN  IF BitAnd(obj_type, 8) # 0 THEN parse_spinner(parts, hit_time)
             ELSE IF BitAnd(obj_type, 2) # 0 THEN parse_drumroll(parts, hit_time, hitsound)
             ELSE parse_hit(hit_time, hitsound)

\* an insertion that puts a note before the notes of equal key
RECURSIVE InsertNote_unstable(_, _)
InsertNote_unstable(s, n) ==
    IF s = << >> THEN << n >>
    ELSE IF s[Len(s)].time_ms < n.time_ms THEN Append(s, n)
    ELSE Append(InsertNote_unstable(SubSeq(s, 1, Len(s) - 1), n), s[Len(s)])

\* list.sort(key=time_ms): stable, by insertion after the last not-greater key
RECURSIVE InsertNote(_, _)
InsertNote(s, n) ==
    IF s = << >> THEN << n >>
    ELSE IF s[Len(s)].time_ms <= n.time_ms THEN Append(s, n)
    ELSE Append(InsertNote(SubSeq(s, 1, Len(s) - 1), n), s[Len(s)])

RECURSIVE SortNotes(_)
SortNotes(s) ==
    IF s = << >> THEN << >>
    ELSE InsertNote(SortNotes(SubSeq(s, 1, Len(s) - 1)), s[Len(s)])

\* the loop of lines 84-135 from line i on, with in_hit_objects and the notes so far
RECURSIVE parse_loop(_, _, _, _)
parse_loop(content, i, in_hit_objects, acc) ==
    IF i > Len(content) THEN [raised |-> FALSE, notes |-> SortNotes(acc)]
    ELSE LET line == content[i]
         IN  IF line.tag = "section" /\ line.name = "[HitObjects]"
             THEN parse_loop(content, i + 1, TRUE, acc)
             ELSE IF line.tag = "section" /\ in_hit_objects
             THEN [raised |-> FALSE, notes |-> SortNotes(acc)]
             ELSE IF ~in_hit_objects \/ line.tag = "blank" \/ line.tag = "comment"
             THEN parse_loop(content, i + 1, in_hit_objects, acc)
             ELSE LET o == parse_line(line.parts)
                  IN  IF o.r = "raise" THEN [raised |-> TRUE, notes |-> << >>]
                      ELSE IF o.r = "skip"
                      THEN parse_loop(content, i + 1, in_hit_objects, acc)
                      ELSE parse_loop(content, i + 1, in_hit_objects, Append(acc, o.note))

parse_osu_taiko(content) == parse_loop(content, 1, FALSE, << >>)

\* ------------------------------------------------------------------------
\* Environment: the messages tosu sends and the files under the songs folder
\* ------------------------------------------------------------------------
NoName == "<absent>"
StateNames == {"Menu", "Playing"}
GameTimes == {1000, 1500}
RenderTimes == {999, 1000, 5001, 6001}
ModValues == {0, 64}
BeatmapFiles == {"a.osu", "b.osu", "gone.osu"}
SongsFolders == {"Songs"}
WallTimes == {500 * w : w \in 0..MaxWall}

\* a coarse message after json.loads; a missing play.mods.number, beatmapFile
\* or songs is the default that .get() supplies for it
CoarseEvents(names, times, files, folders) ==
    [json : {"ok"}, name : names, mods : ModValues, has_live : BOOLEAN, live : times,
     beatmapFile : files, songs : folders]

\* what json.loads(message) does with a message: returns the data ("ok"), or
\* raises JSONDecodeError (text that is not JSON) or UnicodeDecodeError (bytes
\* that are not text)
JsonOutcomes == {"ok", "JSONDecodeError", "UnicodeDecodeError"}

\* the messages json.loads rejects
Malformed ==
    [json |-> "JSONDecodeError", name |-> NoName, mods |-> 0, has_live |-> FALSE,
     live |-> 0, beatmapFile |-> "", songs |-> ""]
Undecodable == [Malformed EXCEPT !.json = "UnicodeDecodeError"]

\* the precise stream: malformed, without currentTime, or with currentTime = t
\* the message {}
EmptyEvent ==
    [json |-> "ok", name |-> NoName, mods |-> 0, has_live |-> FALSE, live |-> 0,
     beatmapFile |-> "", songs |-> ""]

\* the feed the lock is watched under: plays starting and ending with and
\* without modifiers and times, and a chart
LockEvents ==
    { ev \in CoarseEvents(StateNames, {1500}, {"", "a.osu"}, SongsFolders) :
        IF ev.beatmapFile = "" THEN ev.has_live
        ELSE ev.mods = 0 /\ ~ev.has_live /\ ev.name = "Menu" }

PreciseMessages == [json : JsonOutcomes, has_t : BOOLEAN, t : GameTimes]
PreciseSamples == { m \in PreciseMessages : m.json = "ok" /\ m.has_t }

\* the session feed: every state name, modifier and time, no chart identifier
SessionEvents ==
    { ev \in CoarseEvents(StateNames \cup {NoName}, GameTimes, {""}, {""}) :
        ~ev.has_live => ev.live = 1000 }

\* the chart feed: every chart identifier and folder, with or without them,
\* in and out of a play
ChartEvents ==
    { ev \in CoarseEvents(StateNames, GameTimes, BeatmapFiles \cup {""},
                          SongsFolders \cup {""}) :
        ev.mods = 0 /\ ev.live = 1000 /\ ~ev.has_live }

\* the feed the renderer is watched under: two charts, and the times around
\* the onsets and ends of their notes
RenderEvents ==
    { ev \in CoarseEvents({NoName}, RenderTimes, {"", "a.osu", "b.osu"}, SongsFolders) :
        /\ ev.mods = 0
        /\ ev.has_live = (ev.beatmapFile = "") }

ChartA == << HitObjectsLine,
             ObjLine(<< IntF(256), IntF(192), IntF(1000), IntF(1), IntF(0) >>),
             ObjLine(<< IntF(256), IntF(192), IntF(500), IntF(1), IntF(8) >>) >>
ChartB == << HitObjectsLine,
             ObjLine(<< IntF(256), IntF(192), IntF(5000), IntF(1), IntF(4) >>),
             ObjLine(<< IntF(256), IntF(192), IntF(5000), IntF(12), IntF(0), IntF(6000) >>),
             ObjLine(<< IntF(100), IntF(100), IntF(975), IntF(2), IntF(0), BadF,
                        IntF(1), FloatF(250) >>) >>

FileExists(folder, rel) == folder = "Songs" /\ rel \in {"a.osu", "b.osu"}
FileText(folder, rel) == IF rel = "a.osu" THEN ChartA ELSE ChartB

\* lines 315-318: the text of a readable file, parsed (each parse written once)
ParsedChartA == parse_osu_taiko(ChartA)
ParsedChartB == parse_osu_taiko(ChartB)
read_and_parse(folder, rel) == IF rel = "a.osu" THEN ParsedChartA ELSE ParsedChartB

\* ------------------------------------------------------------------------
\* State
\* ------------------------------------------------------------------------
VARIABLES
    state_name, prev_state, playing, game_time_ms,
    mods_number, speed_rate, mod_label, play_start_wall, play_start_game,
    beatmap_path, songs_folder, notes, notes_id, loaded_beatmap_path,
    loader_pc, current_rel, full_path, loader_notes, loader_notes_id,
    frame, note_cache_key, note_items, draw_alive, now,
    last_msg, win, loads, dropped, thr, last_time,
    arg, ret, called

playVars == << state_name, prev_state, playing, mods_number, speed_rate,
               mod_label, play_start_wall, play_start_game >>
chartVars == << beatmap_path, songs_folder, notes, notes_id, loaded_beatmap_path >>
loaderVars == << loader_pc, current_rel, full_path, loader_notes, loader_notes_id >>
renderVars == << frame, note_cache_key, note_items, draw_alive >>
harnessVars == << arg, ret, called >>
vars == << playVars, game_time_ms, chartVars, loaderVars, renderVars, now,
           last_msg, win, loads, dropped, thr, last_time, harnessVars >>

\* identities (id()) of list objects; None is no object
Ids == 1..MaxIds
None == 0
\* the lists that are referenced: state.notes and the loader's local notes
Live == {notes_id, loader_notes_id}

NoFrame == [drawn |-> FALSE, game_state |-> "Menu", notes_snap |-> << >>,
            mod_label |-> "", current_ms |-> 0]
NoMsg == [seen |-> FALSE, before |-> "Menu", name |-> NoName, captured |-> FALSE,
          mods |-> 0, live |-> 0]
\* what happened since state_name last became "Playing": the last value of
\* each stream, whether each stream was non-decreasing, whether a frame was
\* drawn (frame then holds it)
NoWin == [c_set |-> FALSE, c |-> 0, p_set |-> FALSE, p |-> 0, ordered |-> TRUE,
          d_set |-> FALSE]

\* state.lock and the threads that take it one statement at a time: who holds
\* the lock, where the coarse handler is and with which event, where draw is
NoThr == [lock |-> "free", ws_pc |-> "idle", ev |-> EmptyEvent, draw_pc |-> "idle"]

\* what the loader did since beatmap_path last changed: the read-and-parse
\* attempts (counted up to MaxAttempts), the successful ones among them that
\* read the identifier current at that moment; and, over the whole run,
\* whether an attempt failed and which file the published notes came from
NoLoads == [n |-> 0, ok |-> 0, failed |-> FALSE, src |-> << "", "" >>]

Bump(k) == IF k < MaxAttempts THEN k + 1 ELSE k

GameStateInit ==
    /\ state_name = "Menu" /\ prev_state = "Menu" /\ playing = FALSE
    /\ game_time_ms = 0
    /\ mods_number = 0 /\ speed_rate = 100 /\ mod_label = ""
    /\ play_start_wall = 0 /\ play_start_game = 0
    /\ beatmap_path = "" /\ songs_folder = "" /\ notes = << >> /\ notes_id = 1
    /\ loaded_beatmap_path = ""
    /\ loader_pc = "sleep" /\ current_rel = "" /\ full_path = << "", "" >>
    /\ loader_notes = << >> /\ loader_notes_id = None
    /\ frame = NoFrame /\ note_cache_key = None /\ note_items = << >>
    /\ draw_alive = TRUE /\ now = 0
    /\ last_msg = NoMsg /\ win = NoWin /\ loads = NoLoads /\ dropped = ""
    /\ thr = NoThr /\ last_time = 0

Init ==
    /\ GameStateInit
    /\ arg = 0 /\ ret = 0 /\ called = FALSE

\* ------------------------------------------------------------------------
\* on_message: one coarse event, applied under state.lock
\* ------------------------------------------------------------------------
\* a playing flag that is only ever raised
next_playing_sticky(new_state_name, capture, was_playing) ==
    IF capture THEN TRUE ELSE was_playing

\* lines 213-218: state.playing after the event
next_playing(new_state_name, capture, was_playing) ==
    IF new_state_name # "Playing" THEN FALSE
    ELSE IF capture THEN TRUE ELSE was_playing

\* lines 224-226 with a default of 0 for an absent beatmap.time.live
coarse_time_default(ev, old) == IF ev.has_live THEN ev.live ELSE 0

\* lines 224-226: beatmap.time.live replaces game_time_ms unless it is absent
coarse_time(ev, old) == IF ev.has_live THEN ev.live ELSE old

\* try: data = json.loads(message) / except json.JSONDecodeError: return.
\* The handler goes on with the data, returns, or is left by the exception.
json_loads(message) ==
    IF message.json = "ok" THEN "data"
    ELSE IF message.json = "JSONDecodeError" THEN "return"
    ELSE "raise"

on_message(ev) ==
    IF json_loads(ev) # "data"
    THEN /\ dropped' = IF json_loads(ev) = "return" THEN "on_message:json"
                       ELSE "on_message:raised"
         /\ UNCHANGED << playVars, game_time_ms, chartVars, loaderVars, renderVars, now,
                         last_msg, win, loads, thr, last_time, harnessVars >>
    ELSE
    LET new_state_name == IF ev.name = NoName THEN state_name ELSE ev.name
        capture == new_state_name = "Playing" /\ prev_state # "Playing"
        live0 == IF ev.has_live THEN ev.live ELSE 0
        new_beatmap == ev.beatmapFile
        new_songs == ev.songs
        changed == new_beatmap # "" /\ new_beatmap # beatmap_path
        inPlay == new_state_name = "Playing"
        opened == inPlay /\ state_name # "Playing"
        w == IF opened \/ ~inPlay THEN NoWin ELSE win
    IN  /\ mods_number' = IF capture THEN ev.mods ELSE mods_number
        /\ speed_rate' = IF capture THEN mods_to_speed_rate(ev.mods) ELSE speed_rate
        /\ mod_label' = IF capture THEN mods_to_label(ev.mods) ELSE mod_label
        /\ play_start_wall' = IF capture THEN now ELSE play_start_wall
        /\ play_start_game' = IF capture THEN live0 ELSE play_start_game
        /\ playing' = next_playing(new_state_name, capture, playing)
        /\ prev_state' = state_name
        /\ state_name' = new_state_name
        /\ game_time_ms' = coarse_time(ev, game_time_ms)
        /\ last_time' = IF ev.has_live THEN ev.live ELSE last_time
        /\ songs_folder' = IF new_songs # "" /\ new_songs # songs_folder
                           THEN new_songs ELSE songs_folder
        /\ beatmap_path' = IF changed THEN new_beatmap ELSE beatmap_path
        /\ notes' = IF changed THEN << >> ELSE notes
        /\ IF changed THEN notes_id' \in Ids \ Live ELSE notes_id' = notes_id
        /\ last_msg' = [seen |-> TRUE, before |-> state_name, name |-> ev.name,
                        captured |-> capture, mods |-> ev.mods, live |-> live0]
        /\ win' = IF inPlay /\ ev.has_live
                  THEN [w EXCEPT !.c_set = TRUE, !.c = ev.live,
                                 !.ordered = w.ordered /\ (w.c_set => w.c <= ev.live)]
                  ELSE w
        /\ loads' = IF changed THEN [loads EXCEPT !.n = 0, !.ok = 0] ELSE loads
        /\ dropped' = ""
        /\ UNCHANGED << loaded_beatmap_path, loaderVars, renderVars, now, thr, harnessVars >>

\* ------------------------------------------------------------------------
\* on_precise_message: currentTime = t replaces game_time_ms under state.lock;
\* a malformed message and a message without currentTime return early
\* ------------------------------------------------------------------------
\* a handler that never moves the time backwards
precise_time_monotone(m, old) == IF m.t > old THEN m.t ELSE old

precise_time(m, old) == m.t

on_precise_message(m) ==
    /\ dropped' = IF json_loads(m) = "return" THEN "on_precise_message:json"
                  ELSE IF json_loads(m) = "raise" THEN "on_precise_message:raised"
                  ELSE IF ~m.has_t THEN "on_precise_message:currentTime"
                  ELSE ""
    /\ IF json_loads(m) # "data" \/ ~m.has_t
       THEN UNCHANGED << game_time_ms, win, last_time >>
       ELSE /\ game_time_ms' = precise_time(m, game_time_ms)
            /\ last_time' = m.t
            /\ win' = IF state_name = "Playing"
                      THEN [win EXCEPT !.p_set = TRUE, !.p = m.t,
                                       !.ordered = win.ordered /\ (win.p_set => win.p <= m.t)]
                      ELSE win
    /\ UNCHANGED << playVars, chartVars, loaderVars, renderVars, now, last_msg, loads,
                    thr, harnessVars >>

\* ------------------------------------------------------------------------
\* beatmap_loader_thread: one pass of the loop in three steps, the first and
\* the last under state.lock, the file read and the parse outside it
\* ------------------------------------------------------------------------
\* a loader that reloads whatever is current on every pass
loader_idle_nocompare(rel, folder, already) ==
    rel = "" \/ folder = ""

\* lines 307-310: the two continue statements
loader_idle(rel, folder, already) ==
    rel = "" \/ folder = "" \/ rel = already

LoaderPoll ==
    /\ loader_pc = "sleep"
    /\ IF loader_idle(beatmap_path, songs_folder, loaded_beatmap_path)
       THEN UNCHANGED loaderVars
       ELSE /\ loader_pc' = "load"
            /\ current_rel' = beatmap_path
            /\ full_path' = << songs_folder, beatmap_path >>
            /\ UNCHANGED << loader_notes, loader_notes_id >>
    /\ UNCHANGED << playVars, game_time_ms, chartVars, renderVars, now, last_msg, win,
                    loads, dropped, thr, last_time, harnessVars >>

LoaderLoad ==
    /\ loader_pc = "load"
    /\ LET exists == FileExists(full_path[1], full_path[2])
           res == IF exists THEN read_and_parse(full_path[1], full_path[2])
                  ELSE [raised |-> TRUE, notes |-> << >>]
           success == exists /\ ~res.raised
       IN  /\ IF success
              THEN /\ loader_pc' = "publish" /\ loader_notes' = res.notes
                   /\ loader_notes_id' \in Ids \ Live
              ELSE /\ loader_pc' = "sleep"
                   /\ UNCHANGED << loader_notes, loader_notes_id >>
           /\ loads' = [loads EXCEPT
                          !.n = Bump(loads.n),
                          !.ok = IF success /\ current_rel = beatmap_path
                                 THEN Bump(loads.ok) ELSE loads.ok,
                          !.failed = loads.failed \/ ~success]
    /\ UNCHANGED << current_rel, full_path >>
    /\ UNCHANGED << playVars, game_time_ms, chartVars, renderVars, now, last_msg, win,
                    dropped, thr, last_time, harnessVars >>

\* a publish that records the identifier current at publish time
LoaderPublish_current ==
    /\ loader_pc = "publish"
    /\ notes' = loader_notes
    /\ notes_id' = loader_notes_id
    /\ loaded_beatmap_path' = beatmap_path
    /\ loader_pc' = "sleep"
    /\ loads' = [loads EXCEPT !.src = full_path]
    /\ UNCHANGED << current_rel, full_path, loader_notes, loader_notes_id >>
    /\ UNCHANGED << playVars, game_time_ms, beatmap_path, songs_folder, renderVars,
                    now, last_msg, win, dropped, thr, last_time, harnessVars >>

LoaderPublish ==
    /\ loader_pc = "publish"
    /\ notes' = loader_notes
    /\ notes_id' = loader_notes_id
    /\ loaded_beatmap_path' = current_rel
    /\ loader_pc' = "sleep"
    /\ loads' = [loads EXCEPT !.src = full_path]
    /\ UNCHANGED << current_rel, full_path, loader_notes, loader_notes_id >>
    /\ UNCHANGED << playVars, game_time_ms, beatmap_path, songs_folder, renderVars,
                    now, last_msg, win, dropped, thr, last_time, harnessVars >>

\* ------------------------------------------------------------------------
\* run_renderer.draw: the snapshot read under state.lock, the rebuild of the
\* canvas items when id(notes_snap) differs from note_cache_key, and the loop
\* that places and shows or hides the items.  A canvas entry is the tuple of
\* item ids of one note: n ids, the first one shown or not (on), the others
\* shown or not (rest).
\* ------------------------------------------------------------------------
SpanTypes == {"drumroll", "drumroll_big", "spinner"}

build_note_items(ns) ==
    [i \in 1..Len(ns) |->
        [n |-> IF ns[i].note_type \in SpanTypes THEN 3 ELSE 1,
         on |-> FALSE, rest |-> FALSE]]

\* lines 504-550 from index i on; crashed when ids[1] does not exist
RECURSIVE draw_loop(_, _, _, _)
draw_loop(ns, items, i, current_ms) ==
    IF i > Len(ns) \/ i > Len(items) THEN [items |-> items, crashed |-> FALSE]
    ELSE LET note == ns[i]
             dtt == note.time_ms - current_ms
             end_dtt == note.end_time_ms - current_ms
             hide == [items EXCEPT ![i].on = FALSE, ![i].rest = FALSE]
         IN  IF note.note_type \in SpanTypes
             THEN IF end_dtt < 0 \/ dtt > LOOKAHEAD_MS
                  THEN draw_loop(ns, hide, i + 1, current_ms)
                  ELSE IF items[i].n < 3
                  THEN [items |-> items, crashed |-> TRUE]
                  ELSE draw_loop(ns, [items EXCEPT ![i].on = TRUE, ![i].rest = TRUE],
                                 i + 1, current_ms)
             ELSE IF dtt < 0 \/ dtt > LOOKAHEAD_MS
                  THEN draw_loop(ns, hide, i + 1, current_ms)
                  ELSE draw_loop(ns, [items EXCEPT ![i].on = TRUE], i + 1, current_ms)

\* an exception leaves draw before root.after(4, draw): no further tick
draw ==
    /\ draw_alive
    /\ LET items0 == IF notes_id # note_cache_key THEN build_note_items(notes)
                     ELSE note_items
           res == draw_loop(notes, items0, 1, game_time_ms)
       IN  /\ note_items' = res.items
           /\ draw_alive' = ~res.crashed
    /\ note_cache_key' = notes_id
    /\ frame' = [drawn |-> TRUE, game_state |-> state_name, notes_snap |-> notes,
                 mod_label |-> mod_label, current_ms |-> game_time_ms]
    /\ win' = IF state_name = "Playing"
              THEN [win EXCEPT !.d_set = TRUE]
              ELSE win
    /\ UNCHANGED << playVars, game_time_ms, chartVars, loaderVars, now, last_msg,
                    loads, dropped, thr, last_time, harnessVars >>

\* time.perf_counter() advances
Tick ==
    /\ \E w \in WallTimes : w > now /\ now' = w
    /\ UNCHANGED << playVars, game_time_ms, chartVars, loaderVars, renderVars,
                    last_msg, win, loads, dropped, thr, last_time, harnessVars >>

Loader ==
    \/ LoaderPoll
    \/ LoaderLoad
    \/ LoaderPublish

\* the program fed with the session feed; with no chart identifier every
\* loader pass is the idle one, and the loader is left out
Next ==
    \/ \E ev \in SessionEvents : on_message(ev)
    \/ \E m \in PreciseSamples : on_precise_message(m)
    \/ draw
    \/ Tick

Spec == Init /\ [][Next]_vars

\* the same program fed with chart changes; the precise stream, the clock and
\* the renderer, which write no chart state, are left out
LoaderNext ==
    \/ \E ev \in ChartEvents : on_message(ev)
    \/ Loader

LoaderSpec == Init /\ [][LoaderNext]_vars

\* the program with its renderer, fed with chart changes and times
RenderNext ==
    \/ \E ev \in RenderEvents : on_message(ev)
    \/ Loader
    \/ draw

RenderSpec == Init /\ [][RenderNext]_vars

\* ------------------------------------------------------------------------
\* on_message and draw statement by statement, with state.lock
\* ------------------------------------------------------------------------
\* a lock that lets everyone in
can_acquire_unlocked(holder) == TRUE

\* with state.lock: blocks until nobody holds the lock
can_acquire(holder) == holder = "free"

\* lines 200-218: take the lock, the play-start block
ws_lock(ev) ==
    /\ thr.ws_pc = "idle" /\ can_acquire(thr.lock)
    /\ LET new_state_name == IF ev.name = NoName THEN state_name ELSE ev.name
           capture == new_state_name = "Playing" /\ prev_state # "Playing"
           live0 == IF ev.has_live THEN ev.live ELSE 0
       IN  /\ mods_number' = IF capture THEN ev.mods ELSE mods_number
           /\ speed_rate' = IF capture THEN mods_to_speed_rate(ev.mods) ELSE speed_rate
           /\ mod_label' = IF capture THEN mods_to_label(ev.mods) ELSE mod_label
           /\ play_start_wall' = IF capture THEN now ELSE play_start_wall
           /\ play_start_game' = IF capture THEN live0 ELSE play_start_game
           /\ playing' = next_playing(new_state_name, capture, playing)
    /\ thr' = [thr EXCEPT !.lock = "ws", !.ws_pc = "names", !.ev = ev]
    /\ UNCHANGED << state_name, prev_state, game_time_ms, chartVars, loaderVars,
                    renderVars, now, last_msg, win, loads, dropped, last_time, harnessVars >>

\* lines 220-221
ws_names ==
    /\ thr.ws_pc = "names"
    /\ prev_state' = state_name
    /\ state_name' = IF thr.ev.name = NoName THEN state_name ELSE thr.ev.name
    /\ thr' = [thr EXCEPT !.ws_pc = "time"]
    /\ UNCHANGED << playing, mods_number, speed_rate, mod_label, play_start_wall,
                    play_start_game, game_time_ms, chartVars, loaderVars, renderVars,
                    now, last_msg, win, loads, dropped, last_time, harnessVars >>

\* lines 223-226
ws_time ==
    /\ thr.ws_pc = "time"
    /\ game_time_ms' = coarse_time(thr.ev, game_time_ms)
    /\ last_time' = IF thr.ev.has_live THEN thr.ev.live ELSE last_time
    /\ thr' = [thr EXCEPT !.ws_pc = "chart"]
    /\ UNCHANGED << playVars, chartVars, loaderVars, renderVars, now, last_msg, win,
                    loads, dropped, harnessVars >>

\* lines 228-240, and the lock is released
ws_unlock ==
    /\ thr.ws_pc = "chart"
    /\ LET new_beatmap == thr.ev.beatmapFile
           new_songs == thr.ev.songs
           changed == new_beatmap # "" /\ new_beatmap # beatmap_path
       IN  /\ songs_folder' = IF new_songs # "" /\ new_songs # songs_folder
                              THEN new_songs ELSE songs_folder
           /\ beatmap_path' = IF changed THEN new_beatmap ELSE beatmap_path
           /\ notes' = IF changed THEN << >> ELSE notes
           /\ IF changed THEN notes_id' \in Ids \ Live ELSE notes_id' = notes_id
    /\ thr' = [thr EXCEPT !.lock = "free", !.ws_pc = "idle", !.ev = EmptyEvent]
    /\ UNCHANGED << playVars, game_time_ms, loaded_beatmap_path, loaderVars, renderVars,
                    now, last_msg, win, loads, dropped, last_time, harnessVars >>

\* lines 491-492: take the lock, read state_name
draw_lock ==
    /\ draw_alive
    /\ thr.draw_pc = "idle" /\ can_acquire(thr.lock)
    /\ frame' = [frame EXCEPT !.game_state = state_name]
    /\ thr' = [thr EXCEPT !.lock = "draw", !.draw_pc = "notes"]
    /\ UNCHANGED << playVars, game_time_ms, chartVars, loaderVars, note_cache_key,
                    note_items, draw_alive, now, last_msg, win, loads, dropped, last_time,
                    harnessVars >>

\* line 493
draw_read_notes ==
    /\ thr.draw_pc = "notes"
    /\ frame' = [frame EXCEPT !.notes_snap = notes]
    /\ thr' = [thr EXCEPT !.draw_pc = "mod_label"]
    /\ UNCHANGED << playVars, game_time_ms, chartVars, loaderVars, note_cache_key,
                    note_items, draw_alive, now, last_msg, win, loads, dropped, last_time,
                    harnessVars >>

\* line 494
draw_read_label ==
    /\ thr.draw_pc = "mod_label"
    /\ frame' = [frame EXCEPT !.mod_label = mod_label]
    /\ thr' = [thr EXCEPT !.draw_pc = "game_time_ms"]
    /\ UNCHANGED << playVars, game_time_ms, chartVars, loaderVars, note_cache_key,
                    note_items, draw_alive, now, last_msg, win, loads, dropped, last_time,
                    harnessVars >>

\* line 495, the lock is released, and the rest of the tick (lines 497-573)
draw_unlock ==
    /\ thr.draw_pc = "game_time_ms"
    /\ LET items0 == IF notes_id # note_cache_key THEN build_note_items(frame.notes_snap)
                     ELSE note_items
           res == draw_loop(frame.notes_snap, items0, 1, game_time_ms)
       IN  /\ note_items' = res.items
           /\ draw_alive' = ~res.crashed
    /\ note_cache_key' = notes_id
    /\ frame' = [frame EXCEPT !.drawn = TRUE, !.current_ms = game_time_ms]
    /\ thr' = [thr EXCEPT !.lock = "free", !.draw_pc = "idle"]
    /\ UNCHANGED << playVars, game_time_ms, chartVars, loaderVars, now, last_msg, win,
                    loads, dropped, last_time, harnessVars >>

\* lines 278-279: the precise handler's single write, under the lock
precise_locked ==
    /\ can_acquire(thr.lock)
    /\ \E m \in PreciseSamples : on_precise_message(m)

\* lines 302-305 and 319-321: the loader's two sections under the lock
loader_locked ==
    /\ can_acquire(thr.lock)
    /\ (LoaderPoll \/ LoaderPublish)

LockNext ==
    \/ \E ev \in LockEvents : ws_lock(ev)
    \/ ws_names
    \/ ws_time
    \/ ws_unlock
    \/ precise_locked
    \/ loader_locked
    \/ LoaderLoad
    \/ draw_lock
    \/ draw_read_notes
    \/ draw_read_label
    \/ draw_unlock

LockSpec == Init /\ [][LockNext]_vars

\* the two streams with everything they can carry, and the renderer
FeedNext ==
    \/ \E ev \in SessionEvents \cup {Malformed, Undecodable} : on_message(ev)
    \/ \E m \in PreciseMessages : on_precise_message(m)
    \/ draw

FeedSpec == Init /\ [][FeedNext]_vars

\* the chart feed without state names: what the loader reads of an event
FairChartEvents ==
    { ev \in CoarseEvents({NoName}, GameTimes, BeatmapFiles \cup {""},
                          SongsFolders \cup {""}) :
        ev.mods = 0 /\ ev.live = 1000 /\ ~ev.has_live }

FairLoaderNext ==
    \/ \E ev \in FairChartEvents : on_message(ev)
    \/ Loader

\* the loader thread is scheduled again and again (its loop never ends)
FairLoaderSpec ==
    /\ Init /\ [][FairLoaderNext]_vars
    /\ WF_vars(LoaderPoll) /\ WF_vars(LoaderLoad) /\ WF_vars(LoaderPublish)

\* ------------------------------------------------------------------------
\* The pure functions applied to every input of a bounded set
\* ------------------------------------------------------------------------
ModsInit ==
    /\ GameStateInit
    /\ arg \in 0..MaxMods /\ ret = [speed_rate |-> 0, mod_label |-> ""]
    /\ called = FALSE

CallMods ==
    /\ ~called
    /\ called' = TRUE
    /\ ret' = [speed_rate |-> mods_to_speed_rate(arg), mod_label |-> mods_to_label(arg)]
    /\ UNCHANGED << playVars, game_time_ms, chartVars, loaderVars, renderVars, now,
                    last_msg, win, loads, dropped, thr, last_time, arg >>

ModsNext == CallMods

ModsSpec == ModsInit /\ [][ModsNext]_vars

Don(t) == ObjLine(<< IntF(256), IntF(192), IntF(t), IntF(1), IntF(0) >>)
Kat(t) == ObjLine(<< IntF(256), IntF(192), IntF(t), IntF(1), IntF(8) >>)
Spinner(t, f5) == ObjLine(<< IntF(256), IntF(192), IntF(t), IntF(12), IntF(0), f5 >>)
Slider(t, hs, f6, f7) ==
    ObjLine(<< IntF(100), IntF(100), IntF(t), IntF(2), IntF(hs), BadF, f6, f7 >>)

ChartLines ==
    { HitObjectsLine, OtherSectionLine, CommentLine,
      ObjLine(<< IntF(256), IntF(192), IntF(700) >>),
      ObjLine(<< IntF(256), IntF(192), BadF, IntF(1), IntF(0) >>),
      Don(1000), Kat(500), Don(0),
      Spinner(1000, IntF(2000)), Spinner(1000, BadF),
      ObjLine(<< IntF(256), IntF(192), IntF(800), IntF(8), IntF(0) >>),
      Slider(500, 4, IntF(1), FloatF(250)), Slider(500, 0, BadF, BadF),
      Slider(500, 0, IntF(1), InfF) }

RECURSIVE SeqsUpTo(_, _)
SeqsUpTo(S, n) ==
    IF n = 0 THEN { << >> }
    ELSE LET shorter == SeqsUpTo(S, n - 1)
         IN  shorter \cup { Append(q, x) : q \in shorter, x \in S }

ParseInit ==
    /\ GameStateInit
    /\ arg \in SeqsUpTo(ChartLines, MaxLines)
    /\ ret = [raised |-> FALSE, notes |-> << >>]
    /\ called = FALSE

CallParse ==
    /\ ~called
    /\ called' = TRUE
    /\ ret' = parse_osu_taiko(arg)
    /\ UNCHANGED << playVars, game_time_ms, chartVars, loaderVars, renderVars, now,
                    last_msg, win, loads, dropped, thr, last_time, arg >>

ParseNext == CallParse

ParseSpec == ParseInit /\ [][ParseNext]_vars

\* ------------------------------------------------------------------------
\* Properties
\* ------------------------------------------------------------------------
\* round(n / d) for n >= 0, d > 0: Python rounds halves to even
RoundDiv(n, d) ==
    LET q == n \div d
        r == n % d
    IN  IF 2 * r < d THEN q
        ELSE IF 2 * r > d THEN q + 1
        ELSE IF q % 2 = 0 THEN q ELSE q + 1

\* a step of draw that changed what is shown
Drew == frame' # frame

\* C1: a "Playing" event applied directly after a "Playing" event never runs
\* the play-start capture.
C1_NoRecapture ==
    (last_msg.seen /\ last_msg.name = "Playing" /\ last_msg.before = "Playing")
        => ~last_msg.captured

\* C2: right after a "Playing" event that follows a non-Playing state, playing
\* is True and mods_number, speed_rate, mod_label and play_start_game are the
\* ones of that event.
C2_PlayStartCaptured ==
    (last_msg.seen /\ last_msg.name = "Playing" /\ last_msg.before # "Playing")
        => /\ playing
           /\ mods_number = last_msg.mods
           /\ speed_rate = mods_to_speed_rate(last_msg.mods)
           /\ mod_label = mods_to_label(last_msg.mods)
           /\ play_start_game = last_msg.live

\* C3: notes is empty whenever the loaded identifier differs from the current
\* one, under every interleaving of on_message with the loader.
C3_NoStaleNotes ==
    loaded_beatmap_path # beatmap_path => notes = << >>

\* C4: if the identifier and the folder stay fixed from some point on and the
\* file is readable, the loader eventually (after that point) has published
\* the parse of that file under that identifier.
C4_EventuallyLoaded ==
    \A folder \in SongsFolders : \A rel \in BeatmapFiles :
        FileExists(folder, rel) =>
            ( <>[](beatmap_path = rel /\ songs_folder = folder)
              => []<>( /\ notes = read_and_parse(folder, rel).notes
                       /\ loaded_beatmap_path = rel ) )

\* C5: parse_osu_taiko returns a note list for every chart text; no exception
\* leaves it.
C5_ParseNeverRaises ==
    called => ~ret.raised

\* C6: every note of the result has end_time_ms >= time_ms, and an
\* instantaneous note has end_time_ms = time_ms.
C6_EndNotBeforeOnset ==
    (called /\ ~ret.raised) =>
        \A i \in 1..Len(ret.notes) :
            /\ ret.notes[i].end_time_ms >= ret.notes[i].time_ms
            /\ ret.notes[i].note_type \in {"don", "don_big", "kat", "kat_big"}
                   => ret.notes[i].end_time_ms = ret.notes[i].time_ms

\* C7: with the play-start anchor in place (no precise sample since, and the
\* last-known time still the anchor's game reference), the time a render tick
\* uses at monotonic time now is
\* play_start_game + round((now - play_start_wall) * speed_rate).
C7_AnchoredEstimate ==
    [][ (Drew /\ playing /\ state_name = "Playing" /\ ~win.p_set
              /\ game_time_ms = play_start_game)
          => frame'.current_ms
               = play_start_game + RoundDiv((now - play_start_wall) * speed_rate, 100) ]_vars

\* C8: once a precise sample t1 has been ingested in a play, the time a render
\* tick uses is derived from t1 (t1 advanced by the wall time elapsed since it
\* arrived, whenever that was), whatever coarse samples arrived after it.
C8_PreciseKeepsReference ==
    [][ (Drew /\ state_name = "Playing" /\ win.p_set)
          => \E since \in WallTimes :
                /\ since <= now
                /\ frame'.current_ms
                     = win.p + RoundDiv((now - since) * speed_rate, 100) ]_vars

\* C9: while the state stays "Playing" and each stream delivers non-decreasing
\* times, successive render ticks read non-decreasing times.
C9_MonotoneEstimate ==
    [][ (Drew /\ state_name = "Playing" /\ win.d_set /\ win.ordered)
          => frame'.current_ms >= frame.current_ms ]_vars

\* bit k of m
Bit(m, k) == (m \div (2 ^ k)) % 2 = 1

\* C10: speed is 1.5 with bit 6 or bit 9, else 0.75 with bit 8, else 1.0; the
\* label is "NC" with bit 9, else "DT" with bit 6, else "HT" with bit 8, else "".
C10_ModifierMapping ==
    called =>
        /\ ret.speed_rate = IF Bit(arg, 6) \/ Bit(arg, 9) THEN 150
                            ELSE IF Bit(arg, 8) THEN 75 ELSE 100
        /\ ret.mod_label = IF Bit(arg, 9) THEN "NC"
                           ELSE IF Bit(arg, 6) THEN "DT"
                           ELSE IF Bit(arg, 8) THEN "HT" ELSE ""
        /\ arg \in {512, 576} => ret = [speed_rate |-> 150, mod_label |-> "NC"]
        /\ arg = 64 => ret = [speed_rate |-> 150, mod_label |-> "DT"]
        /\ arg = 256 => ret = [speed_rate |-> 75, mod_label |-> "HT"]
        /\ arg = 0 => ret = [speed_rate |-> 100, mod_label |-> ""]

\* nightcore with the double-time bit also set has been mapped
C10_Witness ==
    called /\ arg = 576 /\ ret.mod_label = "NC" /\ ret.speed_rate = 150

\* C11: playing is True only while state_name is "Playing", and an event whose
\* state name is not "Playing" leaves playing False.
C11_PlayingOnlyWhilePlaying ==
    /\ playing => state_name = "Playing"
    /\ (last_msg.seen /\ last_msg.name = "Menu") => ~playing

\* an event reporting "Menu" arrived during a play and lowered the flag
C11_Witness ==
    /\ last_msg.seen /\ last_msg.name = "Menu" /\ last_msg.before = "Playing"
    /\ ~playing /\ state_name = "Menu" /\ mods_number = 64

\* the parse of the file at << folder, rel >>
ParsedFile(path) == read_and_parse(path[1], path[2]).notes

\* C12 (as claimed): between two changes of beatmap_path the loader makes no
\* more than the one read-and-parse attempt, whether it succeeds or fails.
C12_OneAttemptPerChange ==
    loads.n <= 1

\* C12 (amended): a loader pass that finds beatmap_path or songs_folder empty,
\* or beatmap_path equal to loaded_beatmap_path, does nothing; and between two
\* changes of beatmap_path at most one attempt on the current identifier
\* succeeds.
C12_OneSuccessPerChange ==
    [][ /\ ( /\ loader_pc = "sleep"
             /\ (beatmap_path = "" \/ songs_folder = ""
                   \/ beatmap_path = loaded_beatmap_path) )
           => (loader_pc' = "sleep" /\ loads'.n <= loads.n)
        /\ loads'.ok <= 1 ]_vars

\* a file was read once, published, and the loader is idle on it
C12_Witness ==
    /\ loads.ok = 1 /\ loads.n = 1 /\ loader_pc = "sleep"
    /\ beatmap_path = "b.osu" /\ loaded_beatmap_path = "b.osu"
    /\ notes = ParsedFile(<< "Songs", "b.osu" >>)

\* C13: once an attempt has failed, an identifier that stays current and whose
\* file is readable is still loaded and published.
C13_LoadsAfterFailure ==
    \A folder \in SongsFolders : \A rel \in BeatmapFiles :
        FileExists(folder, rel) =>
            ( <>[](loads.failed /\ beatmap_path = rel /\ songs_folder = folder)
              => []<>( /\ notes = ParsedFile(<< folder, rel >>)
                       /\ loaded_beatmap_path = rel ) )

\* C20: notes is empty or the parse of the file that was read for
\* loaded_beatmap_path.
C20_NotesAreLoadedChart ==
    notes = << >>
      \/ ( /\ loads.src[2] = loaded_beatmap_path
           /\ FileExists(loads.src[1], loads.src[2])
           /\ notes = ParsedFile(loads.src) )

\* a chart is published while another identifier is already current
C20_Witness ==
    /\ notes # << >> /\ loaded_beatmap_path = "a.osu" /\ beatmap_path = "b.osu"
    /\ notes = ParsedFile(<< "Songs", "a.osu" >>)

\* the lines of a chart text that yield a note: those after the first
\* [HitObjects] line and before the next other section line
NoteLines(content) ==
    LET heads == { i \in 1..Len(content) : content[i] = HitObjectsLine }
        start == IF heads = {} THEN Len(content) + 1
                 ELSE CHOOSE i \in heads : \A j \in heads : i <= j
        ends == { i \in (start + 1)..Len(content) :
                    content[i].tag = "section" /\ content[i] # HitObjectsLine }
        stop == IF ends = {} THEN Len(content) + 1
                ELSE CHOOSE i \in ends : \A j \in ends : i <= j
    IN  { i \in (start + 1)..(stop - 1) :
            content[i].tag = "obj" /\ parse_line(content[i].parts).r = "note" }

NoteOfLine(content, i) == parse_line(content[i].parts).note

\* C17: the result is sorted non-decreasing by time_ms and notes of equal
\* time_ms keep the order of their lines: the note of line i stands at the
\* position that counts the notes of smaller time and the earlier ones of
\* equal time.
C17_SortedStable ==
    (called /\ ~ret.raised) =>
        LET body == NoteLines(arg)
            Rank(i) == Cardinality({ j \in body :
                          \/ NoteOfLine(arg, j).time_ms < NoteOfLine(arg, i).time_ms
                          \/ /\ NoteOfLine(arg, j).time_ms = NoteOfLine(arg, i).time_ms
                             /\ j <= i })
        IN  /\ Len(ret.notes) = Cardinality(body)
            /\ \A k \in 1..(Len(ret.notes) - 1) :
                   ret.notes[k].time_ms <= ret.notes[k + 1].time_ms
            /\ \A i \in body : ret.notes[Rank(i)] = NoteOfLine(arg, i)

\* a text whose lines are out of time order and hold two different notes of
\* equal time has been parsed
C17_Witness ==
    /\ called /\ ~ret.raised /\ Len(ret.notes) = 3
    /\ arg[2] = Don(1000) /\ arg[3] = Kat(500) /\ arg[4].parts[4].v = 2
    /\ ret.notes[1].note_type = "kat" /\ ret.notes[1].time_ms = 500
    /\ ret.notes[2].note_type \in {"drumroll", "drumroll_big"}
    /\ ret.notes[2].time_ms = 500

\* what the screen shows after a tick: the notes whose first canvas item is
\* in state "normal"
ItemShown(i) == i <= Len(note_items) /\ note_items[i].on

\* C18: after a render tick that read the timeline and the current time c, the
\* instantaneous notes shown are exactly the notes of that timeline with
\* c <= time_ms <= c + LOOKAHEAD_MS, and nothing else is shown for them.
C18_InstantWindow ==
    frame.drawn =>
        /\ \A i \in 1..Len(frame.notes_snap) :
              frame.notes_snap[i].note_type \notin SpanTypes =>
                 (ItemShown(i) <=>
                     /\ frame.current_ms <= frame.notes_snap[i].time_ms
                     /\ frame.notes_snap[i].time_ms <= frame.current_ms + LOOKAHEAD_MS)
        /\ \A i \in 1..Len(note_items) :
              note_items[i].on => i <= Len(frame.notes_snap)

\* C19: after a render tick with current time c, a span note is shown iff
\* end_time_ms >= c and time_ms <= c + LOOKAHEAD_MS, and a non-span note whose
\* time_ms is below c is hidden.
C19_SpanWindow ==
    frame.drawn =>
        \A i \in 1..Len(frame.notes_snap) :
            LET note == frame.notes_snap[i]
            IN  IF note.note_type \in SpanTypes
                THEN ItemShown(i) <=>
                        /\ note.end_time_ms >= frame.current_ms
                        /\ note.time_ms <= frame.current_ms + LOOKAHEAD_MS
                ELSE note.time_ms < frame.current_ms => ~ItemShown(i)

\* every field of GameState
GameStateFields == << playVars, game_time_ms, chartVars >>

\* C14: a step of on_message or on_precise_message on a message that is not
\* valid JSON changes no field of the shared GameState, and the handler
\* returns (it is not left by an exception).
C14_MalformedDiscarded ==
    [][ ( \/ on_message(Malformed) \/ on_message(Undecodable)
          \/ \E m \in PreciseMessages : m.json # "ok" /\ on_precise_message(m) )
        => /\ UNCHANGED GameStateFields
           /\ dropped' \in {"on_message:json", "on_precise_message:json"} ]_vars

\* C15: a precise message with currentTime = t makes game_time_ms, which the
\* next render tick reads as its current time, equal to t; a precise message
\* without currentTime changes nothing; neither changes any other field.
C15_PreciseSetsTime ==
    [][ /\ \A m \in PreciseMessages :
              (m.json = "ok" /\ on_precise_message(m)) =>
                  /\ game_time_ms' = IF m.has_t THEN m.t ELSE game_time_ms
                  /\ UNCHANGED << playVars, chartVars >>
        /\ Drew => frame'.current_ms = game_time_ms ]_vars

C15_Witness ==
    /\ win.c_set /\ win.p_set /\ win.p < win.c
    /\ game_time_ms = win.p /\ dropped = ""
    /\ frame.drawn /\ frame.current_ms = win.p /\ frame.game_state = "Playing"
    /\ mods_number = 64

\* C16: a render tick never observes a partially applied event: while the
\* coarse handler is between its first and its last write, draw is not between
\* its first and its last read, and the snapshot a tick ends with is the
\* GameState of one moment (the play-start fields all old or all new).
C16_NoTornRead ==
    [][ /\ thr.ws_pc # "idle" => thr.draw_pc = "idle"
        /\ (thr.draw_pc = "game_time_ms" /\ thr'.draw_pc = "idle") =>
              /\ thr.ws_pc = "idle"
              /\ frame'.game_state = state_name
              /\ frame'.notes_snap = notes
              /\ frame'.mod_label = mod_label
              /\ frame'.current_ms = game_time_ms ]_vars

C16_Witness ==
    /\ thr.lock = "ws" /\ thr.ws_pc = "names" /\ thr.draw_pc = "idle"
    /\ playing /\ mod_label = "DT" /\ state_name = "Menu"
    /\ frame.drawn /\ frame.game_state = "Menu" /\ frame.mod_label = ""

\* C21: game_time_ms is the time value of the most recently applied message
\* that carried one (0 before any), and a render tick takes that value as its
\* current time whatever playing, speed_rate and play_start_wall are.
C21_TimeIsLastSample ==
    /\ [](game_time_ms = last_time)
    /\ [][Drew => frame'.current_ms = last_time]_vars

C21_Witness ==
    /\ playing /\ speed_rate = 150 /\ now > play_start_wall
    /\ win.c_set /\ win.c = 1500 /\ win.p_set /\ win.p = 1000
    /\ last_time = 1000 /\ game_time_ms = 1000
    /\ frame.drawn /\ frame.game_state = "Playing" /\ frame.current_ms = 1000

====
